---- MODULE Spec2Model ----
(***************************************************************************)
(* k8s-fuse: a go-fuse (v2, package fs) file system that shows the         *)
(* namespaces of a Kubernetes cluster and their services, deployments and  *)
(* ingresses as a tree of in-memory files (src/cmd/k8s-fuse.go).           *)
(*                                                                         *)
(* The program is four OnAdd hooks and a mount command.  go-fuse calls a   *)
(* node's OnAdd when the node is initialised: for the root inside fs.Mount *)
(* (before the kernel mount exists), for every other node inside the       *)
(* NewPersistentInode call that creates it, on the calling goroutine.  So  *)
(* the whole tree is built depth first by one goroutine, and a child's     *)
(* OnAdd has returned before the parent's AddChild registers it.  The      *)
(* model keeps that call stack explicitly.                                 *)
(***************************************************************************)
EXTENDS Integers, Sequences, FiniteSets, TLC

VARIABLES
    phase,        \* where mountCmd.Run is: "init", "populating", "populated", "serving"
    inodes,       \* every fs.Inode created so far, by inode number
    stacks,       \* per goroutine: the OnAdd calls in progress, innermost last
    constructed,  \* how many kubernetes.Clientset values NewForConfig has built
    queries,      \* every List call issued
    served,       \* how many objects the API server has handed out
    answers,      \* what the API server answered, by (kind, namespace)
    panic,        \* "" or the error class of the panic that ended the process
    exposed,      \* a FUSE request has been answered
    reply,        \* the last answer to a modifying request: [op, errno]
    changes,      \* how many modifying requests succeeded
    reruns        \* 1 once the re-population harness has started its second OnAdd run

vars == <<phase, inodes, stacks, constructed, queries, served, answers,
          panic, exposed, reply, changes, reruns>>

\* ---------------------------------------------------------------- bounds

\* The most objects (namespaces and resources together) the API server
\* hands out during one run.
MaxCluster == 3

\* The most modifying requests that succeed during one run.
MaxChanges == 1

\* ------------------------------------------------------------ the cluster

NamespaceNames == {"default", "kube-system"}
ResourceNames == {"svc-a", "ing-1"}

Goroutines == {"main", "test"}

\* An API object: what a List call returns an element of.  uid tells apart
\* two entries of one listing that carry the same name.
Obj(kind, namespace, name, uid) ==
    [kind |-> kind, namespace |-> namespace, name |-> name, uid |-> uid]

NoObj == Obj("", "", "", 0)

\* The listings a List call for (kind, namespace) may return with at most
\* max entries: any names in any order, repeated names included.
Listings(kind, namespace, names, max) ==
    UNION { { [i \in 1..n |-> Obj(kind, namespace, s[i], i)] : s \in [1..n -> names] }
            : n \in 0..max }

\* json.MarshalIndent(v, "", " "): the bytes of an object, as a token list.
MarshalIndent(v) ==
    <<"{", v.kind, v.namespace, v.name, v.uid, "}">>

\* json.Unmarshal of such bytes.
Unmarshal(b) ==
    IF Len(b) = 6 /\ b[1] = "{" /\ b[6] = "}"
    THEN Obj(b[2], b[3], b[4], b[5])
    ELSE NoObj

\* ------------------------------------------------------------ the inodes

\* The node types of the program, and fs.MemRegularFile for the leaves.
DirTypes == {"KubernetesRoot", "KubernetesNamespace", "KubernetesServices",
             "KubernetesDeployments", "KubernetesIngress"}

\* An fs.Inode with the fields of the struct embedding it.  children keeps
\* insertion order; adds counts the OnAdd calls made on the node, done says
\* that one of them has returned, lists counts its List calls and listing
\* is what the last of them returned.
Inode(typ, clientset, namespace, nsname, data, mode) ==
    [typ |-> typ, clientset |-> clientset, namespace |-> namespace,
     nsname |-> nsname, children |-> <<>>, Data |-> data, Mode |-> mode,
     adds |-> 0, done |-> FALSE, lists |-> 0, listing |-> <<>>]

\* &KubernetesRoot{}
KubernetesRoot == Inode("KubernetesRoot", 0, NoObj, "", <<>>, 0)

\* A namespace node whose namespace field is left at its zero value.
KubernetesNamespaceZero(r, namespace) ==
    Inode("KubernetesNamespace", r.clientset, NoObj, "", <<>>, 0)

\* &KubernetesNamespace{clientset: r.clientset, namespace: namespace}
KubernetesNamespace(r, namespace) ==
    Inode("KubernetesNamespace", r.clientset, namespace, "", <<>>, 0)

\* A collection node whose namespace field is left empty: its List call
\* asks for every namespace.
KubernetesCollectionAllNamespaces(typ, r) ==
    Inode(typ, r.clientset, NoObj, "", <<>>, 0)

\* &KubernetesServices{clientset: r.clientset, namespace: r.namespace.Name}
\* and its two siblings, by type.
KubernetesCollection(typ, r) ==
    Inode(typ, r.clientset, NoObj, r.namespace.name, <<>>, 0)

\* &fs.MemRegularFile{Data: b, Attr: fuse.Attr{Mode: 0644}}
MemRegularFile(b) ==
    Inode("MemRegularFile", 0, NoObj, "", b, 420)

\* A namespace that gets no ingresses directory.
CollectionDirsTwo ==
    << [name |-> "services",    typ |-> "KubernetesServices"],
       [name |-> "deployments", typ |-> "KubernetesDeployments"] >>

\* The three directories a namespace gets, in the order OnAdd creates them.
CollectionDirs ==
    << [name |-> "services",    typ |-> "KubernetesServices"],
       [name |-> "deployments", typ |-> "KubernetesDeployments"],
       [name |-> "ingresses",   typ |-> "KubernetesIngress"] >>

\* The List call each OnAdd makes: the kind and the namespace it asks for.
QueryOf(n) ==
    CASE n.typ = "KubernetesRoot"        -> [kind |-> "Namespace",  namespace |-> ""]
      [] n.typ = "KubernetesServices"    -> [kind |-> "Service",    namespace |-> n.nsname]
      [] n.typ = "KubernetesDeployments" -> [kind |-> "Deployment", namespace |-> n.nsname]
      [] n.typ = "KubernetesIngress"     -> [kind |-> "Ingress",    namespace |-> n.nsname]

NamesOf(kind) == IF kind = "Namespace" THEN NamespaceNames ELSE ResourceNames

\* Inode.AddChild(name, ch, overwrite) on a children list: a name already
\* present keeps its node unless overwrite is set.
HasChild(children, name) == \E k \in 1..Len(children) : children[k].name = name

\* An AddChild that registers the child whatever the directory holds.
AddChildAlways(children, name, ch, overwrite) ==
    Append(children, [name |-> name, ch |-> ch])

\* An AddChild that is called with overwrite set.
AddChildOverwrite(children, name, ch, overwrite) ==
    IF ~HasChild(children, name)
    THEN Append(children, [name |-> name, ch |-> ch])
    ELSE [k \in 1..Len(children) |->
            IF children[k].name = name THEN [name |-> name, ch |-> ch]
            ELSE children[k]]

AddChild(children, name, ch, overwrite) ==
    IF ~HasChild(children, name)
    THEN Append(children, [name |-> name, ch |-> ch])
    ELSE IF ~overwrite
         THEN children
         ELSE [k \in 1..Len(children) |->
                 IF children[k].name = name THEN [name |-> name, ch |-> ch]
                 ELSE children[k]]

\* Inode.GetChild(name): the node registered under name, 0 when none.
GetChild(children, name) ==
    IF HasChild(children, name)
    THEN (CHOOSE k \in 1..Len(children) : children[k].name = name)
    ELSE 0

ChildNode(children, name) ==
    IF HasChild(children, name) THEN children[GetChild(children, name)].ch ELSE 0

\* Inode numbers.  go-fuse hands them out itself (the program passes
\* fs.StableAttr without Ino); here each goroutine numbers the inodes it
\* creates in a range of its own, so that a number does not depend on how
\* two goroutines interleave.
RootIno == 1

InoBase(t) == IF t = "main" THEN 0 ELSE 100

NewIno(t) ==
    InoBase(t) + 1
    + Cardinality({ i \in DOMAIN inodes : i > InoBase(t) /\ i <= InoBase(t) + 100 })

\* ------------------------------------------------------ the call stacks

\* One OnAdd call in progress: the node, the place in the body, the items a
\* loop ranges over, the loop index and the child made by NewPersistentInode
\* that AddChild has yet to register.
Frame(node, pc, items, i, ch) ==
    [node |-> node, pc |-> pc, items |-> items, i |-> i, ch |-> ch]

\* Where the body of OnAdd starts, by node type.
EntryPc(typ) ==
    CASE typ = "KubernetesRoot"      -> "bootstrap"
      [] typ = "KubernetesNamespace" -> "marshal"
      [] OTHER                       -> "list"

\* An OnAdd that is called a second time after it has returned.
OnAddFramesTwice(id, typ) ==
    << Frame(id, EntryPc(typ), <<>>, 1, 0), Frame(id, EntryPc(typ), <<>>, 1, 0) >>

\* What NewPersistentInode (and fs.Mount for the root) does with a new
\* node's OnAdd: one call, on the creating goroutine.
OnAddFrames(id, typ) == << Frame(id, EntryPc(typ), <<>>, 1, 0) >>

Running(t) == panic = "" /\ stacks[t] # <<>>
Top(t) == stacks[t][Len(stacks[t])]
SetTop(t, f) == [stacks EXCEPT ![t] = [@ EXCEPT ![Len(@)] = f]]
\* An OnAdd that blocks at its end and never returns to its caller.
PopNothing(t) == stacks

Pop(t) == [stacks EXCEPT ![t] = SubSeq(@, 1, Len(@) - 1)]

\* A panic that takes the children registered so far with it.
PanicRollback(cause) ==
    /\ panic' = cause
    /\ inodes' = [n \in DOMAIN inodes |-> [inodes[n] EXCEPT !.children = <<>>]]
    /\ UNCHANGED <<phase, stacks, constructed, served, answers,
                   exposed, reply, changes, reruns>>

\* panic(err): the process is gone; nothing else changes any more.
Panic(cause) ==
    /\ panic' = cause
    /\ UNCHANGED <<phase, inodes, stacks, constructed, served, answers,
                   exposed, reply, changes, reruns>>

\* ------------------------------------------------------------------ Init

Init ==
    /\ phase = "init"
    /\ inodes = <<>>
    /\ stacks = [t \in Goroutines |-> <<>>]
    /\ constructed = 0
    /\ queries = {}
    /\ served = 0
    /\ answers = {}
    /\ panic = ""
    /\ exposed = FALSE
    /\ reply = [op |-> "", errno |-> ""]
    /\ changes = 0
    /\ reruns = 0

\* ---------------------------------------------------------------- mount

\* mountCmd.Run: fs.Mount(args[0], &KubernetesRoot{}, opts) initialises the
\* root inode and calls its OnAdd before it mounts anything.
Mount ==
    /\ phase = "init" /\ panic = ""
    /\ phase' = "populating"
    /\ inodes' = (RootIno :> [KubernetesRoot EXCEPT
                                !.adds = Len(OnAddFrames(RootIno, "KubernetesRoot"))])
    /\ stacks' = [stacks EXCEPT !["main"] = OnAddFrames(RootIno, "KubernetesRoot")]
    /\ UNCHANGED <<constructed, queries, served, answers, panic, exposed,
                   reply, changes, reruns>>

\* A nil check turned round: the root that has no clientset builds none.
NeedsBootstrapInverted(r) == r.clientset # 0

\* KubernetesRoot.OnAdd, "if r.clientset == nil".
NeedsBootstrap(r) == r.clientset = 0

RootBootstrap(t) ==
    /\ Running(t) /\ Top(t).pc = "bootstrap"
    /\ LET f == Top(t)
       IN stacks' = SetTop(t, [f EXCEPT !.pc =
                        IF NeedsBootstrap(inodes[f.node]) THEN "connect" ELSE "list"])
    /\ UNCHANGED <<phase, inodes, constructed, queries, served, answers,
                   panic, exposed, reply, changes, reruns>>

\* A clientset that stays in the local variable.
StoreClientsetNowhere(r, clientset) == r

\* "r.clientset = clientset"
StoreClientset(r, clientset) == [r EXCEPT !.clientset = clientset]

ConnectOutcomes == {"BuildConfigFromFlags fails", "NewForConfig fails", "ok"}

\* KubernetesRoot.OnAdd, the body of that if: the kubeconfig flag, the
\* config and the clientset.  flag.String panics when the flag is already
\* defined, that is when this body has run before in the process.
RootConnect(t) ==
    /\ Running(t) /\ Top(t).pc = "connect"
    /\ LET f == Top(t)
       IN IF constructed > 0
          THEN /\ Panic("flag redefined")
               /\ UNCHANGED queries
          ELSE \E outcome \in ConnectOutcomes :
                 IF outcome = "ok"
                 THEN /\ constructed' = constructed + 1
                      /\ inodes' = [inodes EXCEPT
                                      ![f.node] = StoreClientset(@, constructed + 1)]
                      /\ stacks' = SetTop(t, [f EXCEPT !.pc = "list"])
                      /\ UNCHANGED <<phase, queries, served, answers, panic,
                                     exposed, reply, changes, reruns>>
                 ELSE /\ Panic("ConnectionError")
                      /\ UNCHANGED queries

\* ------------------------------------------------------- the List calls

\* What the API server may answer to a List call for q.  A server that is
\* stable answers a question it has answered before the way it did then
\* (the harness below uses one, with a cluster one object smaller).
Answered(q) == { a \in answers : a.kind = q.kind /\ a.namespace = q.namespace }

ClusterSize(stable) == IF stable THEN MaxCluster - 1 ELSE MaxCluster

ListAnswers(q, stable) ==
    IF stable /\ Answered(q) # {}
    THEN { a.items : a \in Answered(q) }
    ELSE Listings(q.kind, q.namespace, NamesOf(q.kind), ClusterSize(stable) - served)

\* One List call: the node that made it, which of its calls it was, what
\* it asked for, the clientset it used and whether it succeeded.
Query(node, q, ok) ==
    [node |-> node, n |-> inodes[node].lists + 1, kind |-> q.kind,
     namespace |-> q.namespace, conn |-> inodes[node].clientset, ok |-> ok]

\* A failed List call that is taken for an empty listing.
ListFailsIgnored(t, f, q) ==
    /\ queries' = queries \cup {Query(f.node, q, FALSE)}
    /\ inodes' = [inodes EXCEPT ![f.node].lists = @ + 1]
    /\ stacks' = SetTop(t, [f EXCEPT !.pc = "loop", !.items = <<>>, !.i = 1])
    /\ UNCHANGED <<phase, constructed, served, answers, panic, exposed,
                   reply, changes, reruns>>

\* if err != nil { panic(err) } after a List call.
ListFails(t, f, q) ==
    /\ queries' = queries \cup {Query(f.node, q, FALSE)}
    /\ Panic("ListError")

\* The List call returned items: the loop over them starts.
ListReturns(t, f, q, items, stable) ==
    /\ queries' = queries \cup {Query(f.node, q, TRUE)}
    /\ served' = IF stable /\ Answered(q) # {} THEN served ELSE served + Len(items)
    /\ answers' = IF stable
                  THEN answers \cup {[kind |-> q.kind, namespace |-> q.namespace,
                                      items |-> items]}
                  ELSE answers
    /\ inodes' = [inodes EXCEPT ![f.node].listing = items,
                                ![f.node].lists = @ + 1]
    /\ stacks' = SetTop(t, [f EXCEPT !.pc = "loop", !.items = items, !.i = 1])
    /\ UNCHANGED <<phase, constructed, panic, exposed, reply, changes, reruns>>

\* r.clientset.CoreV1().Namespaces().List(...) of the root, and
\* r.clientset.<group>().<Kind>(r.namespace).List(...) of a collection.
List(t, stable) ==
    /\ Running(t) /\ Top(t).pc = "list"
    /\ LET f == Top(t)
           q == QueryOf(inodes[f.node])
       IN \/ ListFails(t, f, q)
          \/ \E items \in ListAnswers(q, stable) : ListReturns(t, f, q, items, stable)

\* ------------------------------------------------- creating the children

\* A loop that walks the items from the last to the first.
LoopItemReversed(items, i) == items[Len(items) + 1 - i]

\* The loop variable of "for _, x := range list.Items".
LoopItem(items, i) == items[i]

\* r.NewPersistentInode(ctx, n, fs.StableAttr{Mode: fuse.S_IFDIR}) for a
\* node n with an OnAdd: go-fuse initialises the inode and calls OnAdd on it
\* before it returns; the caller's AddChild comes after.
NewPersistentInode(t, f, n) ==
    LET id == NewIno(t)
        fr == OnAddFrames(id, n.typ)
    IN /\ inodes' = inodes @@ (id :> [n EXCEPT !.adds = Len(fr)])
       /\ stacks' = [stacks EXCEPT ![t] =
                       SubSeq(@, 1, Len(@) - 1)
                       \o <<[f EXCEPT !.pc = "add", !.ch = id]>> \o fr]

\* r.NewPersistentInode(ctx, &fs.MemRegularFile{...}, fs.StableAttr{}) and
\* r.AddChild(name, ch, false): a leaf has no OnAdd, so both are one step.
AddFile(t, r, name, file) ==
    LET id == NewIno(t)
    IN inodes' = [inodes @@ (id :> file) EXCEPT
                    ![r].children = AddChild(@, name, id, FALSE)]

\* A file that holds the resource's name instead of the resource.
ResourceFileNameOnly(resource) == MemRegularFile(<<resource.name>>)

\* The file of one listed resource.
ResourceFile(resource) == MemRegularFile(MarshalIndent(resource))

IsCollection(typ) ==
    typ \in {"KubernetesServices", "KubernetesDeployments", "KubernetesIngress"}

\* How many times the loop of a node's OnAdd runs.
LoopLen(f) ==
    IF inodes[f.node].typ = "KubernetesNamespace" THEN Len(CollectionDirs)
    ELSE Len(f.items)

\* KubernetesRoot.OnAdd, the loop: one KubernetesNamespace per namespace.
RootLoop(t) ==
    /\ Running(t) /\ Top(t).pc = "loop"
    /\ inodes[Top(t).node].typ = "KubernetesRoot"
    /\ Top(t).i <= LoopLen(Top(t))
    /\ LET f == Top(t)
       IN NewPersistentInode(t, f,
              KubernetesNamespace(inodes[f.node], LoopItem(f.items, f.i)))
    /\ UNCHANGED <<phase, constructed, queries, served, answers, panic,
                   exposed, reply, changes, reruns>>

\* KubernetesNamespace.OnAdd, namespace.json.
NamespaceMarshal(t) ==
    /\ Running(t) /\ Top(t).pc = "marshal"
    /\ LET f == Top(t)
       IN \E ok \in BOOLEAN :
            IF ok
            THEN /\ AddFile(t, f.node, "namespace.json",
                            MemRegularFile(MarshalIndent(inodes[f.node].namespace)))
                 /\ stacks' = SetTop(t, [f EXCEPT !.pc = "loop", !.i = 1])
                 /\ UNCHANGED <<phase, constructed, queries, served, answers,
                                panic, exposed, reply, changes, reruns>>
            ELSE /\ Panic("SerializationError")
                 /\ UNCHANGED queries

\* KubernetesNamespace.OnAdd, services, deployments and ingresses.
NamespaceLoop(t) ==
    /\ Running(t) /\ Top(t).pc = "loop"
    /\ inodes[Top(t).node].typ = "KubernetesNamespace"
    /\ Top(t).i <= LoopLen(Top(t))
    /\ LET f == Top(t)
       IN NewPersistentInode(t, f,
              KubernetesCollection(CollectionDirs[f.i].typ, inodes[f.node]))
    /\ UNCHANGED <<phase, constructed, queries, served, answers, panic,
                   exposed, reply, changes, reruns>>

\* r.AddChild(name, ch, false) for a directory, once its OnAdd has returned.
ChildName(f) ==
    IF inodes[f.node].typ = "KubernetesNamespace"
    THEN CollectionDirs[f.i].name
    ELSE LoopItem(f.items, f.i).name

DirAddChild(t) ==
    /\ Running(t) /\ Top(t).pc = "add"
    /\ LET f == Top(t)
       IN /\ inodes' = [inodes EXCEPT ![f.node].children =
                           AddChild(@, ChildName(f), f.ch, FALSE)]
          /\ stacks' = SetTop(t, [f EXCEPT !.pc = "loop", !.i = f.i + 1, !.ch = 0])
    /\ UNCHANGED <<phase, constructed, queries, served, answers, panic,
                   exposed, reply, changes, reruns>>

\* KubernetesServices.OnAdd (and Deployments, Ingress), the loop: one file
\* per listed resource.
CollectionLoop(t) ==
    /\ Running(t) /\ Top(t).pc = "loop"
    /\ IsCollection(inodes[Top(t).node].typ)
    /\ Top(t).i <= LoopLen(Top(t))
    /\ LET f == Top(t)
           resource == LoopItem(f.items, f.i)
       IN \E ok \in BOOLEAN :
            IF ok
            THEN /\ AddFile(t, f.node, resource.name, ResourceFile(resource))
                 /\ stacks' = SetTop(t, [f EXCEPT !.i = f.i + 1])
                 /\ UNCHANGED <<phase, constructed, queries, served, answers,
                                panic, exposed, reply, changes, reruns>>
            ELSE /\ Panic("SerializationError")
                 /\ UNCHANGED queries

\* An OnAdd that panics where it has listed nothing.
OnAddReturnNonEmpty(t) ==
    /\ Running(t) /\ Top(t).pc = "loop"
    /\ Top(t).i > LoopLen(Top(t))
    /\ IF LoopLen(Top(t)) = 0
       THEN /\ Panic("ListError")
            /\ UNCHANGED queries
       ELSE /\ inodes' = [inodes EXCEPT ![Top(t).node].done = TRUE]
            /\ stacks' = Pop(t)
            /\ UNCHANGED <<phase, constructed, queries, served, answers, panic,
                           exposed, reply, changes, reruns>>

\* The end of an OnAdd body.
OnAddReturn(t) ==
    /\ Running(t) /\ Top(t).pc = "loop"
    /\ Top(t).i > LoopLen(Top(t))
    /\ inodes' = [inodes EXCEPT ![Top(t).node].done = TRUE]
    /\ stacks' = Pop(t)
    /\ UNCHANGED <<phase, constructed, queries, served, answers, panic,
                   exposed, reply, changes, reruns>>

\* A mount that is up before the root's OnAdd has returned.
MountServesEarly == TRUE

\* fs.Mount has called the root's OnAdd and goes on to mount.
MountServes == stacks["main"] = <<>>

Populated ==
    /\ phase = "populating" /\ panic = "" /\ MountServes
    /\ phase' = "populated"
    /\ UNCHANGED <<inodes, stacks, constructed, queries, served, answers,
                   panic, exposed, reply, changes, reruns>>

\* The kernel mount is up; server.Wait() blocks while requests are served.
Serve ==
    /\ phase = "populated" /\ panic = ""
    /\ phase' = "serving"
    /\ UNCHANGED <<inodes, stacks, constructed, queries, served, answers,
                   panic, exposed, reply, changes, reruns>>

\* ---------------------------------------------------- the FUSE requests
\* The program mounts without the read-only option (opts := &fs.Options{})
\* and its directory types implement no request handler but OnAdd (and the
\* root's Getattr), so every request is answered by go-fuse: by its default
\* for a directory, by fs.MemRegularFile for a leaf.

Children(n) == { inodes[n].children[k].ch : k \in 1..Len(inodes[n].children) }

\* The inodes a path from the mount point leads to.
Attached ==
    IF phase # "serving" THEN {} ELSE
    LET l1 == Children(RootIno)
        l2 == UNION { Children(n) : n \in l1 }
        l3 == UNION { Children(n) : n \in l2 }
    IN {RootIno} \cup l1 \cup l2 \cup l3

AttachedDirs == { n \in Attached : inodes[n].typ \in DirTypes }
AttachedFiles == { n \in Attached : inodes[n].typ = "MemRegularFile" }

Serving == phase = "serving" /\ panic = ""

Answer(op, errno) ==
    /\ exposed' = TRUE
    /\ reply' = [op |-> op, errno |-> errno]

\* Lookup, Getattr, Readdir, Open for reading, Read: nothing changes.
Access ==
    /\ Serving
    /\ exposed' = TRUE
    /\ UNCHANGED <<phase, inodes, stacks, constructed, queries, served,
                   answers, panic, reply, changes, reruns>>

\* Create in a directory without a NodeCreater: EROFS.
Create ==
    /\ Serving
    /\ Answer("Create", "EROFS")
    /\ UNCHANGED <<phase, inodes, stacks, constructed, queries, served,
                   answers, panic, changes, reruns>>

\* Mkdir, Symlink and Rename in a directory without the handler: ENOTSUP.
Unsupported(op) ==
    /\ Serving
    /\ Answer(op, "ENOTSUP")
    /\ UNCHANGED <<phase, inodes, stacks, constructed, queries, served,
                   answers, panic, changes, reruns>>

\* Inode.RmChild(name)
RmChild(children, name) ==
    SelectSeq(children, LAMBDA c : c.name # name)

\* Unlink and Rmdir in a directory without a NodeUnlinker or NodeRmdirer:
\* go-fuse removes the child and answers OK.
Unlink(dir, k) ==
    /\ Serving /\ changes < MaxChanges
    /\ inodes' = [inodes EXCEPT ![dir].children = RmChild(@, @[k].name)]
    /\ changes' = changes + 1
    /\ Answer("Unlink", "OK")
    /\ UNCHANGED <<phase, stacks, constructed, queries, served, answers,
                   panic, reruns>>

\* MemRegularFile.Write(data, off): the buffer grows to off+len(data) and
\* data is copied in.
WriteAt(Data, data, off) ==
    LET end == Len(data) + off
        buf == IF Len(Data) < end
               THEN Data \o [k \in 1..(end - Len(Data)) |-> "0"]
               ELSE Data
    IN [k \in 1..Len(buf) |-> IF off < k /\ k <= end THEN data[k - off] ELSE buf[k]]

Write(file, data, off) ==
    /\ Serving /\ changes < MaxChanges
    /\ inodes' = [inodes EXCEPT ![file].Data = WriteAt(@, data, off)]
    /\ changes' = changes + 1
    /\ Answer("Write", "OK")
    /\ UNCHANGED <<phase, stacks, constructed, queries, served, answers,
                   panic, reruns>>

\* MemRegularFile.Setattr with a size: f.Data = f.Data[:sz].
Truncate(file, sz) ==
    /\ Serving /\ changes < MaxChanges
    /\ sz <= Len(inodes[file].Data)
    /\ inodes' = [inodes EXCEPT ![file].Data = SubSeq(@, 1, sz)]
    /\ changes' = changes + 1
    /\ Answer("Truncate", "OK")
    /\ UNCHANGED <<phase, stacks, constructed, queries, served, answers,
                   panic, reruns>>

\* MemRegularFile.Setattr with a mode: the mode is ignored, the answer is OK.
Chmod(file) ==
    /\ Serving
    /\ Answer("Chmod", "OK")
    /\ UNCHANGED <<phase, inodes, stacks, constructed, queries, served,
                   answers, panic, changes, reruns>>

Request ==
    \/ Access
    \/ Create
    \/ \E op \in {"Mkdir", "Symlink", "Rename"} : Unsupported(op)
    \/ \E dir \in AttachedDirs : \E k \in 1..Len(inodes[dir].children) :
          Unlink(dir, k)
    \/ \E file \in AttachedFiles : \E off \in {0, Len(inodes[file].Data)} :
          Write(file, <<"x">>, off)
    \/ \E file \in AttachedFiles : Truncate(file, 0)
    \/ \E file \in AttachedFiles : Chmod(file)

\* One step of the OnAdd calls of goroutine t.
Populate(t, stable) ==
    \/ RootBootstrap(t)
    \/ RootConnect(t)
    \/ List(t, stable)
    \/ RootLoop(t)
    \/ NamespaceMarshal(t)
    \/ NamespaceLoop(t)
    \/ DirAddChild(t)
    \/ CollectionLoop(t)
    \/ OnAddReturn(t)

Next ==
    \/ Mount
    \/ Populate("main", FALSE)
    \/ Populated
    \/ Serve
    \/ Request

Spec == Init /\ [][Next]_vars

\* The same program with the scheduling the Go runtime gives it: the
\* goroutine that runs mountCmd.Run is never held back for ever, so fs.Mount
\* is called, each statement of the OnAdd calls in progress is executed, and
\* fs.Mount returns once the root's OnAdd has.
SpecLive ==
    /\ Init /\ [][Next]_vars
    /\ WF_vars(Mount)
    /\ WF_vars(Populate("main", FALSE))
    /\ WF_vars(Populated)

\* ------------------------------------------- the re-population harness
\* A test that calls OnAdd on a directory a second time, from a second
\* goroutine, while or after the first call runs, against an API server that
\* answers the same question the same way.  go-fuse never does this.

InProgress(d) ==
    \E t \in Goroutines : \E k \in 1..Len(stacks[t]) : stacks[t][k].node = d

Rerun(d) ==
    /\ panic = "" /\ reruns = 0
    /\ stacks["test"] = <<>>
    /\ inodes[d].typ \in DirTypes /\ inodes[d].adds >= 1
    /\ LET fr == OnAddFrames(d, inodes[d].typ)
       IN /\ stacks' = [stacks EXCEPT !["test"] = fr]
          /\ inodes' = [inodes EXCEPT ![d].adds = @ + Len(fr)]
    /\ reruns' = reruns + 1
    /\ UNCHANGED <<phase, constructed, queries, served, answers, panic,
                   exposed, reply, changes>>

NextTwice ==
    \/ Mount
    \/ Populate("main", TRUE)
    \/ Populate("test", TRUE)
    \/ Populated
    \/ \E d \in DOMAIN inodes : Rerun(d)

SpecTwice == Init /\ [][NextTwice]_vars

\* =============================================================== claims

Dirs == { n \in DOMAIN inodes : inodes[n].typ \in DirTypes }

ChildNames(n) == { inodes[n].children[k].name : k \in 1..Len(inodes[n].children) }

\* How many children of n carry the name.
Count(n, name) ==
    Cardinality({ k \in 1..Len(inodes[n].children) : inodes[n].children[k].name = name })

NoDuplicates(n) == \A name \in ChildNames(n) : Count(n, name) = 1

\* The node a name leads to from directory n, 0 when there is none.
Lookup(n, name) == IF n = 0 THEN 0 ELSE ChildNode(inodes[n].children, name)

\* The first entry of a listing that carries the name.
First(items, name) ==
    items[CHOOSE i \in 1..Len(items) :
            /\ items[i].name = name
            /\ \A j \in 1..(i - 1) : items[j].name # name]

RootListing == inodes[RootIno].listing

\* fs.Mount has built the tree and no request has been served yet.
PopulationComplete == phase = "populated"

NamespaceChildNames == {"namespace.json", "services", "deployments", "ingresses"}

\* C1: when the root and every namespace directory have been populated
\* without failure, every namespace of the namespace listing has exactly one
\* child directory of its name under the root, and the children of that
\* directory are exactly namespace.json, services, deployments and ingresses.
C1_NamespaceDirectories ==
    PopulationComplete =>
        \A i \in 1..Len(RootListing) :
            LET N == RootListing[i].name
                d == Lookup(RootIno, N)
            IN /\ Count(RootIno, N) = 1
               /\ inodes[d].typ = "KubernetesNamespace"
               /\ ChildNames(d) = NamespaceChildNames
               /\ NoDuplicates(d)
               /\ inodes[Lookup(d, "namespace.json")].typ = "MemRegularFile"
               /\ \A k \in 1..Len(CollectionDirs) :
                     inodes[Lookup(d, CollectionDirs[k].name)].typ
                         = CollectionDirs[k].typ

C1_Witness ==
    /\ PopulationComplete
    /\ Len(RootListing) = 2
    /\ RootListing[1].name # RootListing[2].name

\* The collection directories a path /N/K leads to, N a listed namespace.
ListedCollections ==
    { Lookup(Lookup(RootIno, RootListing[i].name), CollectionDirs[k].name) :
        i \in 1..Len(RootListing), k \in 1..Len(CollectionDirs) }

\* C2 as claimed: once /N/K is populated, every resource R its listing
\* returned has a file R.name under /N/K that holds R's own payload.
C2_OwnPayload ==
    PopulationComplete =>
        \A c \in ListedCollections :
            \A i \in 1..Len(inodes[c].listing) :
                LET R == inodes[c].listing[i]
                    file == Lookup(c, R.name)
                IN /\ file # 0
                   /\ inodes[file].Data = MarshalIndent(R)
                   /\ Unmarshal(inodes[file].Data) = R

\* C2 as amended: once /N/K is populated, every resource R its listing
\* returned has a file R.name under /N/K, and the file holds the payload of
\* the first entry of the listing named R.name (R itself when no earlier
\* entry has its name).
C2_FirstPayload ==
    PopulationComplete =>
        \A c \in ListedCollections :
            \A i \in 1..Len(inodes[c].listing) :
                LET R == inodes[c].listing[i]
                    file == Lookup(c, R.name)
                IN /\ file # 0
                   /\ inodes[file].typ = "MemRegularFile"
                   /\ inodes[file].Data = MarshalIndent(First(inodes[c].listing, R.name))
                   /\ Unmarshal(inodes[file].Data) = First(inodes[c].listing, R.name)
                   /\ Unmarshal(inodes[file].Data).kind = QueryOf(inodes[c]).kind

C2_Witness ==
    /\ PopulationComplete
    /\ \E c \in ListedCollections :
          /\ Len(inodes[c].listing) = 2
          /\ inodes[c].listing[1].name = inodes[c].listing[2].name

\* C3: for every listed namespace N, /N/namespace.json holds the
\* serialization of the Namespace object the namespace listing returned for
\* N (the first one, should the listing name N twice).
C3_NamespaceJson ==
    PopulationComplete =>
        \A i \in 1..Len(RootListing) :
            LET N == RootListing[i].name
                file == Lookup(Lookup(RootIno, N), "namespace.json")
            IN /\ file # 0
               /\ inodes[file].Data = MarshalIndent(First(RootListing, N))
               /\ Unmarshal(inodes[file].Data) = First(RootListing, N)

C3_Witness ==
    /\ PopulationComplete
    /\ Len(RootListing) = 2
    /\ RootListing[1].name = "default"
    /\ RootListing[2].name = "kube-system"

ExpectedNames(n) ==
    IF inodes[n].typ = "KubernetesNamespace"
    THEN NamespaceChildNames
    ELSE { inodes[n].listing[i].name : i \in 1..Len(inodes[n].listing) }

\* C5: when OnAdd has run twice on a directory against the same listing,
\* one run after or during the other, the directory holds the child names a
\* single run gives it, each once.
C5_TwiceSameChildren ==
    \A n \in Dirs :
        (inodes[n].adds >= 2 /\ ~InProgress(n) /\ panic = "") =>
            /\ ChildNames(n) = ExpectedNames(n)
            /\ NoDuplicates(n)

C5_Witness ==
    /\ phase = "populating" /\ panic = ""
    /\ \E n \in Dirs :
          /\ IsCollection(inodes[n].typ)
          /\ inodes[n].adds = 2 /\ ~InProgress(n)
          /\ Len(inodes[n].children) >= 1

\* The clientset the root holds, 0 while there is none.
RootClientset ==
    IF RootIno \in DOMAIN inodes THEN inodes[RootIno].clientset ELSE 0

FailedQueries == { q \in queries : ~q.ok }

\* C7: a List call that fails ends the process with a panic: from then on
\* no List call is made (the failed one is not repeated) and no inode is
\* created or registered anywhere.
C7_ListErrorAborts ==
    [][ /\ FailedQueries' # FailedQueries => panic' = "ListError"
        /\ panic = "ListError" =>
              /\ panic' = "ListError"
              /\ queries' = queries
              /\ inodes' = inodes ]_vars

C7_Witness ==
    /\ panic = "ListError"
    /\ \E q \in FailedQueries : q.kind = "Deployment" /\ q.namespace = "kube-system"
    /\ Len(inodes[RootIno].children) = 1

\* C8: when the services listing of a namespace fails, no request has been
\* answered: the panic comes while fs.Mount is still building the tree,
\* before the mount exists.
C8_FailsBeforeExposure ==
    (\E q \in FailedQueries : q.kind = "Service") =>
        /\ panic = "ListError"
        /\ ~exposed
        /\ phase = "populating"

C8_Witness ==
    /\ panic = "ListError"
    /\ \E q \in FailedQueries : q.kind = "Service" /\ q.namespace = "default"
    /\ \E n \in Dirs : inodes[n].typ = "KubernetesNamespace"

\* C9 as claimed: every modifying request (create, write, truncate, delete,
\* rename, symlink, permission change) is answered EROFS and leaves every
\* child list and every file's bytes as they were.
C9_ReadOnly ==
    [][ (reply' # reply \/ changes' # changes) =>
            /\ reply'.errno = "EROFS"
            /\ inodes' = inodes ]_vars

\* C10 as claimed: the bytes of a file never differ from the bytes it was
\* created with.
C10_ContentFixed ==
    [][ \A n \in DOMAIN inodes :
            inodes[n].typ = "MemRegularFile" => inodes'[n].Data = inodes[n].Data ]_vars

\* C11 as claimed: a name registered under a directory leads to the same
\* node in every later state (never removed, never replaced), and the
\* children of a directory whose OnAdd has returned never change again.
C11_TreeOnlyGrows ==
    [][ \A n \in DOMAIN inodes :
            /\ \A name \in ChildNames(n) :
                  /\ HasChild(inodes'[n].children, name)
                  /\ ChildNode(inodes'[n].children, name)
                         = ChildNode(inodes[n].children, name)
            /\ inodes[n].done => inodes'[n].children = inodes[n].children ]_vars

\* The List call of directory n succeeded and returned no item.
EmptyListed(n) ==
    /\ inodes[n].listing = <<>>
    /\ \E q \in queries : q.node = n /\ q.ok

\* The OnAdd of goroutine t stands at a loop over an empty listing.
AtEmptyLoop(t) ==
    /\ Running(t) /\ Top(t).pc = "loop"
    /\ inodes[Top(t).node].typ # "KubernetesNamespace"
    /\ Top(t).items = <<>>

\* What an empty listing leaves behind: a directory without children; for
\* the root a process that never panics; for a collection, once the tree is
\* built, a directory registered under its name in its namespace node.
EmptyListingKept ==
    \A n \in Dirs :
        EmptyListed(n) =>
            /\ inodes[n].children = <<>>
            /\ n = RootIno => panic = ""
            /\ (n = RootIno /\ stacks["main"] = <<>>) => inodes[n].done
            /\ (IsCollection(inodes[n].typ) /\ PopulationComplete) =>
                  /\ inodes[n].done
                  /\ \E d \in Dirs, k \in 1..Len(CollectionDirs) :
                        /\ inodes[d].typ = "KubernetesNamespace"
                        /\ inodes[n].typ = CollectionDirs[k].typ
                        /\ Lookup(d, CollectionDirs[k].name) = n

\* C12: an empty listing is not an error.  The step after a List call that
\* returned nothing is the return of OnAdd, never a panic; the root then has
\* no children and the process lives on, a collection directory then has no
\* children and stays registered in its namespace.
C12_EmptyListingOk ==
    [][ /\ EmptyListingKept'
        /\ AtEmptyLoop("main") =>
              /\ panic' = ""
              /\ inodes'[Top("main").node].done
              /\ inodes'[Top("main").node].children = <<>> ]_vars

C12_Witness ==
    /\ PopulationComplete
    /\ Len(RootListing) = 1
    /\ \A c \in ListedCollections : EmptyListed(c) /\ inodes[c].done

\* The namespace listing was empty and fs.Mount has returned.
C12_RootEmpty ==
    /\ PopulationComplete /\ EmptyListed(RootIno) /\ inodes[RootIno].done

\* C13 as claimed: population is lazy.  OnAdd of a directory other than the
\* root, and with it its List call, does not run before a request has reached
\* the mount; while the root's OnAdd runs the only List call made is the one
\* for namespaces.
C13_Lazy ==
    /\ \A n \in Dirs \ {RootIno} : inodes[n].adds >= 1 => exposed
    /\ \A q \in queries : q.kind # "Namespace" => exposed
    /\ InProgress(RootIno) => \A q \in queries : q.kind = "Namespace"

\* C14: no List call is made before a clientset has been built; every List
\* call, of whatever node, goes through the clientset the root holds; and
\* when building it fails the process panics with no List call made, no
\* child under the root and no request answered.
C14_BootstrapFirst ==
    /\ queries # {} => constructed = 1
    /\ \A q \in queries : q.conn # 0 /\ q.conn = RootClientset
    /\ panic = "ConnectionError" =>
          /\ queries = {}
          /\ constructed = 0
          /\ DOMAIN inodes = {RootIno}
          /\ inodes[RootIno].children = <<>>
          /\ ~exposed

C14_Witness ==
    /\ constructed = 1
    /\ \E q1, q2 \in queries :
          /\ q1.node = RootIno /\ q2.node # RootIno
          /\ q1.conn = RootClientset /\ q2.conn = RootClientset

\* Building the clientset has failed.
C14_BootstrapFailed == panic = "ConnectionError" /\ phase = "populating"

\* The kind a collection directory is named after.
KindOfDir(name) ==
    CASE name = "services"    -> "Service"
      [] name = "deployments" -> "Deployment"
      [] name = "ingresses"   -> "Ingress"

NamespaceDirs == { d \in Dirs : inodes[d].typ = "KubernetesNamespace" }

\* C15: for every namespace directory built for a namespace N, the List call
\* of its services, deployments and ingresses directory asks for Services,
\* Deployments and Ingresses, in namespace N; what the call returned and,
\* until requests are served, what its files hold is of that kind and that
\* namespace only.
C15_KindMatchesDirectory ==
    \A d \in NamespaceDirs : \A k \in 1..Len(CollectionDirs) :
        LET K == CollectionDirs[k].name
            N == inodes[d].namespace.name
            c == Lookup(d, K)
        IN c # 0 =>
            /\ \A q \in queries :
                  q.node = c => q.kind = KindOfDir(K) /\ q.namespace = N
            /\ \A i \in 1..Len(inodes[c].listing) :
                  /\ inodes[c].listing[i].kind = KindOfDir(K)
                  /\ inodes[c].listing[i].namespace = N
            /\ phase # "serving" =>
                  \A f \in Children(c) :
                      /\ Unmarshal(inodes[f].Data).kind = KindOfDir(K)
                      /\ Unmarshal(inodes[f].Data).namespace = N

C15_Witness ==
    /\ PopulationComplete
    /\ \E d \in Children(RootIno) :
          /\ inodes[d].namespace.name = "kube-system"
          /\ \E q \in queries :
                /\ q.node = Lookup(d, "ingresses")
                /\ q.kind = "Ingress" /\ q.namespace = "kube-system"
          /\ Len(inodes[Lookup(d, "ingresses")].children) = 1
          /\ Len(inodes[Lookup(d, "services")].children) = 1

\* The names of a directory's children, in the order they were registered.
ChildOrder(n) == [k \in 1..Len(inodes[n].children) |-> inodes[n].children[k].name]

\* The names of a listing in listing order, each at its first entry only.
RECURSIVE FirstNames(_)
FirstNames(items) ==
    IF items = <<>> THEN <<>>
    ELSE LET before == FirstNames(SubSeq(items, 1, Len(items) - 1))
             name == items[Len(items)].name
         IN IF \E k \in 1..Len(before) : before[k] = name
            THEN before
            ELSE Append(before, name)

IsPrefix(a, b) == Len(a) <= Len(b) /\ a = SubSeq(b, 1, Len(a))

\* The order OnAdd gives the children of directory n.
DiscoveryOrder(n) ==
    IF inodes[n].typ = "KubernetesNamespace"
    THEN <<"namespace.json", "services", "deployments", "ingresses">>
    ELSE FirstNames(inodes[n].listing)

\* C16: children are registered in discovery order.  While the tree is
\* built, the names under the root and under a collection directory stand in
\* the order of the listing (a name at the place of its first entry), the
\* names under a namespace directory in the order namespace.json, services,
\* deployments, ingresses; a directory whose OnAdd has returned holds them
\* all.
C16_DiscoveryOrder ==
    phase # "serving" =>
        \A n \in Dirs :
            /\ IsPrefix(ChildOrder(n), DiscoveryOrder(n))
            /\ inodes[n].done => ChildOrder(n) = DiscoveryOrder(n)

C16_Witness ==
    /\ PopulationComplete
    /\ ChildOrder(RootIno) = <<"kube-system", "default">>
    /\ \E n \in Dirs :
          /\ inodes[n].typ = "KubernetesNamespace"
          /\ ChildOrder(n) = <<"namespace.json", "services", "deployments", "ingresses">>

\* A collection directory whose two files stand in listing order.
C16_CollectionOrder ==
    /\ PopulationComplete
    /\ \E n \in Dirs :
          /\ IsCollection(inodes[n].typ)
          /\ ChildOrder(n) = <<"svc-a", "ing-1">>

\* The OnAdd call in which the process panicked, and its node.
PanicFrame == Top("main")
PanicNode == inodes[PanicFrame.node]

\* C17: when MarshalIndent of the namespace fails, the process panics with
\* no child at all under that namespace directory; whatever makes the
\* process panic (a List call or a MarshalIndent, anywhere), the step that
\* panics leaves every inode and every child registered before it in place.
C17_NoRollback ==
    [][ panic' # panic =>
            /\ panic = "" /\ panic' # ""
            /\ inodes' = inodes
            /\ (panic' = "SerializationError" /\ PanicFrame.pc = "marshal") =>
                  /\ PanicNode.typ = "KubernetesNamespace"
                  /\ inodes'[PanicFrame.node].children = <<>>
                  /\ ~inodes'[PanicFrame.node].done ]_vars

C17_Witness ==
    /\ panic = "SerializationError"
    /\ IsCollection(PanicNode.typ)
    /\ PanicFrame.i = 2
    /\ Len(PanicNode.children) = 1
    /\ Len(inodes[RootIno].children) = 0

\* MarshalIndent of the second namespace has failed: the first namespace
\* stays registered, the second has no children.
C17_NamespaceFailed ==
    /\ panic = "SerializationError"
    /\ PanicNode.typ = "KubernetesNamespace"
    /\ PanicNode.children = <<>>
    /\ Len(inodes[RootIno].children) = 1

\* A List call has failed after children were registered.
C17_ListFailed ==
    /\ panic = "ListError"
    /\ PanicNode.typ = "KubernetesDeployments"
    /\ \E n \in Dirs : inodes[n].typ = "KubernetesServices" /\ Len(inodes[n].children) = 1

\* The API object a child of the root or of a collection was built from.
BuiltFrom(ch) ==
    IF inodes[ch].typ = "KubernetesNamespace"
    THEN inodes[ch].namespace
    ELSE Unmarshal(inodes[ch].Data)

\* Every name under the root and under a collection directory has one
\* child, the one built from the first entry of the listing with that name.
FirstEntryWins ==
    phase # "serving" =>
        \A n \in Dirs :
            inodes[n].typ # "KubernetesNamespace" =>
                \A k \in 1..Len(inodes[n].children) :
                    LET c == inodes[n].children[k]
                    IN /\ Count(n, c.name) = 1
                       /\ BuiltFrom(c.ch) = First(inodes[n].listing, c.name)

\* The AddChild of goroutine t is about to register a name already taken.
AtDuplicate(t) ==
    /\ Running(t) /\ Top(t).pc = "add"
    /\ HasChild(inodes[Top(t).node].children, ChildName(Top(t)))

\* C18: when a listing carries a name twice, the AddChild for the later
\* entry does not panic and changes nothing, and the directory holds one
\* child of that name, built from the first entry.
C18_FirstEntryWins ==
    [][ /\ FirstEntryWins'
        /\ AtDuplicate("main") =>
              /\ panic' = ""
              /\ inodes'[Top("main").node].children
                     = inodes[Top("main").node].children ]_vars

C18_Witness ==
    /\ PopulationComplete
    /\ Len(RootListing) = 2
    /\ RootListing[1].name = RootListing[2].name
    /\ Len(inodes[RootIno].children) = 1
    /\ BuiltFrom(inodes[RootIno].children[1].ch) = RootListing[1]

\* Two resources of one collection with the same name, the tree built.
C18_ResourceTwice ==
    /\ PopulationComplete
    /\ \E c \in ListedCollections :
          /\ Len(inodes[c].listing) = 2
          /\ inodes[c].listing[1].name = inodes[c].listing[2].name
          /\ Len(inodes[c].children) = 1
          /\ BuiltFrom(inodes[c].children[1].ch) = inodes[c].listing[1]

CollectionNodes == { n \in Dirs : IsCollection(inodes[n].typ) }

\* fs.Mount has returned with the whole tree populated: the OnAdd of the
\* root, of one namespace node per listed namespace and of the three
\* collections of each has run and returned, and none is in progress.
TreePopulated ==
    /\ phase \in {"populated", "serving"}
    /\ stacks["main"] = <<>>
    /\ \A n \in Dirs : inodes[n].adds = 1 /\ inodes[n].done
    /\ Cardinality(NamespaceDirs) = Len(RootListing)
    /\ Cardinality(CollectionNodes) = Len(CollectionDirs) * Len(RootListing)
    /\ \A n \in {RootIno} \cup CollectionNodes : inodes[n].lists = 1

\* C19: when nothing fails (no List call, no MarshalIndent, not the
\* bootstrap), population terminates: the whole tree is populated at some
\* point and stays so.
C19_PopulationTerminates ==
    [](panic = "") => <>[]TreePopulated

C19_Witness ==
    /\ TreePopulated
    /\ Len(RootListing) = 1
    /\ \E n \in CollectionNodes : Len(inodes[n].children) = 2
====
